---- MODULE Spec2Model ----
(***************************************************************************)
(* A model of the notification service: the provider abstraction           *)
(* (BaseProvider and its three variants), the dispatch orchestrator        *)
(* (NotificationService) with its bulk operation, and the scheduler        *)
(* (SchedulerService) with its registry of jobs and their cron tasks.      *)
(*                                                                         *)
(* JavaScript runs one callback at a time, so each action below is one     *)
(* run-to-completion segment of the code: from an entry point or the       *)
(* completion of a real wait (a transport call, a setTimeout backoff) up   *)
(* to the next real wait.  Management calls (updateProviderStatus) are     *)
(* separate callbacks and interleave only at those waits.                  *)
(***************************************************************************)
EXTENDS Integers, Sequences, FiniteSets, TLC

VARIABLES
    providers,      \* NotificationService.providers: provider names, in list order
    enabled,        \* BaseProvider.enabled of each variant
    initialized,    \* FirebaseProvider.initialized
    config,         \* BaseProvider.config of each variant: TRUE when every required field is set
    notification,   \* the notification of the sendNotification call in flight
    options,        \* its options
    dispatch,       \* the frame of that call: position, loop locals, outcome, history
    bulkList,       \* sendBulkNotifications: the notifications argument
    bulkI,          \* its loop index i
    bulkResults,    \* its results array
    totalSuccessful,
    totalFailed,
    bulkPc,         \* "idle", "running", "returned" or "threw"
    bulkHistory,    \* history: how the dispatch of each item so far ended
    rAttempts,      \* sendWithRetry studied alone: the attempts argument
    rOutcomes,      \* what each send call would do (TRUE: resolves)
    rI,             \* its loop index i
    rPc,            \* "sending", "delay" or "done"
    rCalls,         \* history: number of send calls made
    rDelays,        \* history: the backoff delays waited, in order
    rResult,        \* what sendWithRetry returned or threw
    lastUpdate,     \* history: the last updateProviderStatus call and what it returned
    query,          \* history: the last read-only service call and what it returned
    running,        \* SchedulerService.running
    jobs,           \* SchedulerService.jobs: job id -> job record
    tasks,          \* the node-cron tasks created so far, by handle
    lastCall,       \* history: the last scheduler call and how it ended
    issued,         \* history: the job ids returned by scheduleNotification, in order
    trigger,        \* the schedule computation studied alone: inputs and result
    pkg             \* the package index's own provider instances: enabled and initialized

svcVars == <<providers, enabled, initialized, config>>
dispVars == <<notification, options, dispatch>>
bulkVars == <<bulkList, bulkI, bulkResults, totalSuccessful, totalFailed, bulkPc, bulkHistory>>
retryVars == <<rAttempts, rOutcomes, rI, rPc, rCalls, rDelays, rResult>>
mgmtVars == <<lastUpdate, query>>
schedVars == <<running, jobs, tasks, lastCall, issued>>
timeVars == <<trigger>>
pkgVars == <<pkg>>
vars == <<svcVars, dispVars, bulkVars, retryVars, mgmtVars, schedVars, timeVars, pkgVars>>

----------------------------------------------------------------------------
(* Bounds of the model *)

MaxAttempts == 4
MaxBulk == 3
MaxTasks == 2
MaxInflight == 1

----------------------------------------------------------------------------
(* Providers *)

ProviderNames == {"Firebase", "OneSignal", "Pusher"}

\* providerConfig.<name>.priority
Priority(p) ==
    CASE p = "Firebase" -> 1
      [] p = "OneSignal" -> 2
      [] p = "Pusher" -> 3

retryAttempts == 3
retryDelay == 1000

\* The names a caller may give (options.provider, updateProviderStatus); "" is
\* the falsy value: no provider named.
RequestedNames == {"firebase", "FIREBASE", "onesignal", "OneSignal", "pusher", "sms"}

\* String.prototype.toLowerCase on the strings of the model
toLowerCase(s) ==
    CASE s \in {"Firebase", "firebase", "FIREBASE"} -> "firebase"
      [] s \in {"OneSignal", "onesignal"} -> "onesignal"
      [] s \in {"Pusher", "pusher"} -> "pusher"
      [] OTHER -> s

\* A notification, by what the code looks at: whether title is truthy; whether
\* body is undefined, the empty string or a non-empty string; whether one of
\* token, tokens, topic is truthy.
Notifications == [title : BOOLEAN, body : {"absent", "empty", "text"}, target : BOOLEAN]

\* The options of a dispatch: provider ("" when none is named) and
\* enableFailover (TRUE also stands for the missing field, the default of
\* the request schema).  sendNotification reads options.provider only; the
\* flag is given as false where it could matter, with no provider named.
Options ==
    [provider : RequestedNames \cup {""}, enableFailover : {TRUE}]
        \cup {[provider |-> "", enableFailover |-> FALSE]}

\* BaseProvider.isEnabled, FirebaseProvider.isEnabled
isEnabled(p) ==
    IF p = "Firebase" THEN enabled[p] /\ initialized ELSE enabled[p]

\* BaseProvider.canHandle and its overrides
canHandle(p, n) ==
    IF p = "Firebase" THEN n.target ELSE TRUE

\* BaseProvider.validateNotification: TRUE when it returns, FALSE when it throws
validateNotification(n) ==
    ~(~n.title /\ n.body # "text")

\* The checks of send() that throw before the transport is called
sendRejects(p, n) ==
    IF p = "Firebase"
    THEN ~enabled[p] \/ ~initialized \/ ~canHandle(p, n) \/ ~validateNotification(n)
    ELSE ~enabled[p] \/ ~validateNotification(n)

\* Mutant: the last attempt taken to be the one after the last
IsLastAttemptOffByOne(i, attempts) == i = attempts

\* sendWithRetry: the catch block's test, i === attempts - 1
IsLastAttempt(i, attempts) == i = attempts - 1

\* Mutant: a constant backoff
BackoffDelayConstant(i) == retryDelay

\* sendWithRetry: the backoff after failed attempt i, retryDelay * (i + 1)
BackoffDelay(i) == retryDelay * (i + 1)

----------------------------------------------------------------------------
(* NotificationService: construction *)

\* initializeProviders: the configured variants whose config.enabled is set,
\* sorted by ascending priority
SortedByPriority(S) ==
    CHOOSE s \in [1..Cardinality(S) -> S] :
        /\ \A p \in S : \E i \in 1..Cardinality(S) : s[i] = p
        /\ \A i, j \in 1..Cardinality(S) : i < j => Priority(s[i]) < Priority(s[j])

InitService ==
    /\ \E S \in SUBSET ProviderNames : providers = SortedByPriority(S)
    \* FirebaseProvider.init: complete configuration, or enabled reset to false
    /\ initialized \in BOOLEAN
    /\ initialized => \E i \in 1..Len(providers) : providers[i] = "Firebase"
    /\ enabled = [p \in ProviderNames |->
                    IF p = "Firebase" THEN initialized
                    ELSE \E i \in 1..Len(providers) : providers[i] = p]

\* The configuration each variant is constructed with.  providerConfig reads
\* <NAME>_ENABLED and the credentials from separate environment variables, so
\* a variant may be listed with credentials missing; only FirebaseProvider.init
\* looks at them (project_id, private_key, client_email).
CompleteConfig == [p \in ProviderNames |-> TRUE]

InitConfig ==
    /\ config \in [ProviderNames -> BOOLEAN]
    /\ initialized => config["Firebase"]

----------------------------------------------------------------------------
(* NotificationService.sendNotification *)

Final == {"returned", "threw"}

NoOutcome == [kind |-> "none"]

\* The frame of a call not yet made.  sendCalls, reached, retried and
\* namedUsable are history: the send() calls made on each provider by this
\* dispatch, what the failover loop found when it reached each provider, how
\* sendWithRetry on each provider ended, and whether the provider named by
\* options.provider was in the list with isEnabled() true when the call was made.
NewDispatch ==
    [pc |-> "idle", idx |-> 0, attempt |-> 0, errors |-> <<>>, outcome |-> NoOutcome,
     sendCalls |-> [p \in ProviderNames |-> 0],
     reached |-> [p \in ProviderNames |-> "unreached"],
     retried |-> [p \in ProviderNames |-> "none"],
     namedUsable |-> FALSE]

\* this.providers.find(p => p.getName().toLowerCase() === name.toLowerCase()):
\* the index of the first match, 0 when there is none
FindProvider(name) ==
    LET hits == {i \in 1..Len(providers) : toLowerCase(providers[i]) = toLowerCase(name)}
    IN  IF hits = {} THEN 0 ELSE CHOOSE i \in hits : \A j \in hits : i <= j

\* Mutant: no provider is skipped
EligibleAlways(p, n) == TRUE

\* The failover loop's two skip tests on provider p
Eligible(p, n) == isEnabled(p) /\ canHandle(p, n)

\* Mutant: a skip recorded as a failure
SkipEntryAsFailure(p) ==
    [provider |-> p, error |-> "Provider is disabled", skipped |-> FALSE]

\* The entry the loop pushes for a provider it skips
SkipEntry(p) ==
    IF ~isEnabled(p)
    THEN [provider |-> p, error |-> "Provider is disabled", skipped |-> TRUE]
    ELSE [provider |-> p, error |-> "Provider cannot handle this notification type",
          skipped |-> TRUE]

\* Mutant: a failure recorded as a skip
FailEntryAsSkipped(p) == [provider |-> p, error |-> "send failed", skipped |-> TRUE]

\* The entry the loop pushes when sendWithRetry on p threw
FailEntry(p) == [provider |-> p, error |-> "send failed", skipped |-> FALSE]

\* The index of the first provider at or after j that the loop does not skip,
\* Len(providers) + 1 when it skips them all
FirstEligibleFrom(j, n) ==
    LET hits == {k \in j..Len(providers) : Eligible(providers[k], n)}
    IN  IF hits = {} THEN Len(providers) + 1 ELSE CHOOSE k \in hits : \A m \in hits : k <= m

\* Mutant: failedProviders counts every entry, skipped ones too
FailoverResultCountsSkips(p, n, errs) ==
    [kind |-> "success",
     results |-> <<[provider |-> p]>>,
     errors |-> errs,
     totalProviders |-> Cardinality({i \in 1..Len(providers) : canHandle(providers[i], n)}),
     successfulProviders |-> 1,
     failedProviders |-> Len(errs),
     skippedProviders |-> Cardinality({i \in 1..Len(errs) : errs[i].skipped}),
     usedProvider |-> p]

\* Mutant: the skipped entries are not counted
FailoverResultNoSkipCount(p, n, errs) ==
    [kind |-> "success",
     results |-> <<[provider |-> p]>>,
     errors |-> errs,
     totalProviders |-> Cardinality({i \in 1..Len(providers) : canHandle(providers[i], n)}),
     successfulProviders |-> 1,
     failedProviders |-> Cardinality({i \in 1..Len(errs) : ~errs[i].skipped}),
     skippedProviders |-> 0,
     usedProvider |-> p]

\* The result object of a failover dispatch that succeeded on provider p
FailoverResult(p, n, errs) ==
    [kind |-> "success",
     results |-> <<[provider |-> p]>>,
     errors |-> errs,          \* <<>> stands for undefined
     totalProviders |-> Cardinality({i \in 1..Len(providers) : canHandle(providers[i], n)}),
     successfulProviders |-> 1,
     failedProviders |-> Cardinality({i \in 1..Len(errs) : ~errs[i].skipped}),
     skippedProviders |-> Cardinality({i \in 1..Len(errs) : errs[i].skipped}),
     usedProvider |-> p]

\* The result object of an explicit-provider dispatch that succeeded on p
ExplicitResult(p) ==
    [kind |-> "success",
     results |-> <<[provider |-> p]>>,
     totalProviders |-> 1,
     successfulProviders |-> 1,
     failedProviders |-> 0]

RECURSIVE TryFrom(_, _, _, _)

\* Mutant: the explicit path fails over like the loop
RetryExhaustedFailsOver(d, n, o) ==
    LET p == providers[d.idx]
    IN  TryFrom([d EXCEPT !.retried[p] = "failed", !.errors = Append(@, FailEntry(p))],
                d.idx + 1, n, o)

\* sendWithRetry threw on the provider at d.idx: the explicit path rethrows
\* naming options.provider, the failover loop records it and goes on
RetryExhausted(d, n, o) ==
    LET p == providers[d.idx]
        d1 == [d EXCEPT !.retried[p] = "failed"]
    IN  IF o.provider # ""
        THEN [d1 EXCEPT !.pc = "threw",
                        !.outcome = [kind |-> "SendFailedVia", provider |-> o.provider]]
        ELSE TryFrom([d1 EXCEPT !.errors = Append(@, FailEntry(p))], d.idx + 1, n, o)

\* Mutant: no retry, the first failed attempt ends sendWithRetry
SendFailedNoRetry(d, n, o) == RetryExhausted(d, n, o)

\* sendWithRetry's catch block at attempt d.attempt
SendFailed(d, n, o) ==
    IF IsLastAttempt(d.attempt, retryAttempts)
    THEN RetryExhausted(d, n, o)
    ELSE [d EXCEPT !.pc = "delay"]

\* sendWithRetry's call this.send(notification) at attempt d.attempt: send
\* throws at once, or calls the transport and waits for it
CallSend(d, n, o) ==
    LET p == providers[d.idx]
        d1 == [d EXCEPT !.sendCalls[p] = @ + 1]
    IN  IF sendRejects(p, n)
        THEN SendFailed(d1, n, o)
        ELSE [d1 EXCEPT !.pc = "sending"]

\* The failover loop from list position j on: skip, record the skips, and
\* call sendWithRetry on the first provider not skipped; throw the aggregate
\* when the list is exhausted
TryFrom(d, j, n, o) ==
    LET k == FirstEligibleFrom(j, n)
        skips == [m \in 1..(k - j) |-> SkipEntry(providers[j + m - 1])]
        seen == [p \in ProviderNames |->
                   IF \E m \in j..(k - 1) : providers[m] = p
                   THEN (IF isEnabled(p) THEN "unsupported" ELSE "disabled")
                   ELSE IF k <= Len(providers) /\ providers[k] = p THEN "eligible"
                   ELSE d.reached[p]]
        d1 == [d EXCEPT !.errors = @ \o skips, !.reached = seen]
    IN  IF k > Len(providers)
        THEN [d1 EXCEPT !.pc = "threw",
                        !.outcome = [kind |-> "AllFailed", errors |-> d1.errors]]
        ELSE CallSend([d1 EXCEPT !.idx = k, !.attempt = 0, !.retried[providers[k]] = "pending"],
                      n, o)

\* sendNotification(n, o) up to its first wait
BeginDispatch(n, o) ==
    IF Len(providers) = 0
    THEN [NewDispatch EXCEPT !.pc = "threw", !.outcome = [kind |-> "NoProviders"]]
    ELSE IF o.provider # ""
    THEN LET f == FindProvider(o.provider)
         IN  IF f = 0
             THEN [NewDispatch EXCEPT !.pc = "threw",
                       !.outcome = [kind |-> "NotFound", provider |-> o.provider]]
             ELSE CallSend([NewDispatch EXCEPT !.idx = f, !.attempt = 0,
                                !.retried[providers[f]] = "pending",
                                !.namedUsable = isEnabled(providers[f])], n, o)
    ELSE TryFrom(NewDispatch, 1, n, o)

\* Mutant: the failover loop does not return on success but goes on
SendResolvedNoStop(d, n, o) ==
    TryFrom([d EXCEPT !.retried[providers[d.idx]] = "ok"], d.idx + 1, n, o)

\* The transport call of the send in flight resolves: sendWithRetry returns
\* the receipt and sendNotification returns its result at once
SendResolved(d, n, o) ==
    LET p == providers[d.idx]
        d1 == [d EXCEPT !.retried[p] = "ok", !.pc = "returned"]
    IN  IF o.provider # ""
        THEN [d1 EXCEPT !.outcome = ExplicitResult(p)]
        ELSE [d1 EXCEPT !.outcome = FailoverResult(p, n, d.errors)]

\* The backoff wait ends: the loop of sendWithRetry goes to attempt i + 1, and
\* falls out of the loop (returning undefined) when i + 1 is not below attempts
BackoffOver(d, n, o) ==
    IF d.attempt + 1 < retryAttempts
    THEN CallSend([d EXCEPT !.attempt = @ + 1], n, o)
    ELSE SendResolved([d EXCEPT !.attempt = @ + 1], n, o)

----------------------------------------------------------------------------
(* Actions of the dispatch orchestrator *)

InitDispatch ==
    /\ notification = [title |-> TRUE, body |-> "text", target |-> FALSE]
    /\ options = [provider |-> "", enableFailover |-> TRUE]
    /\ dispatch = NewDispatch

\* A caller invokes sendNotification(n, o), with n and o among those given
SendNotificationWith(ns, os) ==
    /\ dispatch.pc = "idle"
    /\ bulkPc = "idle"
    /\ \E n \in ns, o \in os :
        /\ notification' = n
        /\ options' = o
        /\ dispatch' = BeginDispatch(n, o)
    /\ UNCHANGED <<svcVars, bulkVars, retryVars, mgmtVars, schedVars, timeVars, pkgVars>>

SendNotification == SendNotificationWith(Notifications, Options)

\* ... where the provider list is studied: one notification every provider
\* can handle, sent to the list or to a provider named
ListedNotifications == {[title |-> TRUE, body |-> "text", target |-> TRUE]}

ListedOptions ==
    {[provider |-> name, enableFailover |-> TRUE] : name \in {"", "firebase", "pusher"}}

SendListedNotification == SendNotificationWith(ListedNotifications, ListedOptions)

\* The transport call of the send in flight succeeds
TransportResolves ==
    /\ dispatch.pc = "sending"
    /\ dispatch' = SendResolved(dispatch, notification, options)
    /\ UNCHANGED <<svcVars, notification, options, bulkVars, retryVars, mgmtVars, schedVars, timeVars, pkgVars>>

\* The transport call of the send in flight fails: send throws
TransportRejects ==
    /\ dispatch.pc = "sending"
    /\ dispatch' = SendFailed(dispatch, notification, options)
    /\ UNCHANGED <<svcVars, notification, options, bulkVars, retryVars, mgmtVars, schedVars, timeVars, pkgVars>>

\* The setTimeout of sendWithRetry's delay fires
BackoffElapses ==
    /\ dispatch.pc = "delay"
    /\ dispatch' = BackoffOver(dispatch, notification, options)
    /\ UNCHANGED <<svcVars, notification, options, bulkVars, retryVars, mgmtVars, schedVars, timeVars, pkgVars>>

\* The caller of a direct sendNotification has its result or its error
DispatchReturns ==
    /\ bulkPc = "idle"
    /\ dispatch.pc \in Final
    /\ dispatch' = NewDispatch
    /\ UNCHANGED <<svcVars, notification, options, bulkVars, retryVars, mgmtVars, schedVars, timeVars, pkgVars>>

\* Mutant: the loop of sendBulkNotifications does not await the dispatch
BulkContinuationNotAwaited == bulkPc = "running"

\* The continuation of sendBulkNotifications is due: no other callback runs
\* between the end of an item's dispatch and the loop body that records it
BulkContinuationDue == bulkPc = "running" /\ dispatch.pc \in Final

\* No updateProviderStatus call made yet: no name
NoUpdate == [name |-> "", enabled |-> FALSE, returned |-> FALSE]

InitUpdate == lastUpdate = NoUpdate

\* Mutant: the new value written to every provider
SetEnabledOnAll(f, value) == [p \in ProviderNames |-> value]

\* provider.enabled = enabled, on the provider found at index f
SetEnabled(f, value) == [enabled EXCEPT ![providers[f]] = value]

\* Mutant: true returned whether or not a provider was found
updateProviderStatusAlwaysTrue(name, value) ==
    [enabled |-> enabled, returned |-> TRUE]

\* updateProviderStatus(name, value): the enabled flags it leaves, and what
\* it returns: true when a provider was found and updated, false (the
\* router's 404 "Provider <name> not found") when none was
updateProviderStatus(name, value) ==
    LET f == FindProvider(name)
    IN  [enabled |-> IF f # 0 THEN SetEnabled(f, value) ELSE enabled, returned |-> f # 0]

\* A call of updateProviderStatus between or during dispatches
UpdateProviderStatus ==
    /\ ~BulkContinuationDue
    /\ \E name \in RequestedNames, value \in BOOLEAN :
        enabled' = updateProviderStatus(name, value).enabled
    /\ UNCHANGED <<providers, initialized, config, dispVars, bulkVars, retryVars, mgmtVars, schedVars, timeVars, pkgVars>>

\* A call of updateProviderStatus, with the call and its return value kept
PatchProvider ==
    /\ \E name \in RequestedNames, value \in BOOLEAN :
        /\ enabled' = updateProviderStatus(name, value).enabled
        /\ lastUpdate' = [name |-> name, enabled |-> value,
                          returned |-> updateProviderStatus(name, value).returned]
    /\ UNCHANGED <<providers, initialized, config, query, dispVars, bulkVars, retryVars, schedVars, timeVars, pkgVars>>

----------------------------------------------------------------------------
(* NotificationService: the read-only calls *)

\* No read-only call made yet
NoQuery == [op |-> "none"]

InitQuery == query = NoQuery

\* Array.prototype.indexOf: the zero-based index of the first element equal
\* to x, or -1
indexOf(s, x) ==
    IF \E i \in 1..Len(s) : s[i] = x
    THEN (CHOOSE i \in 1..Len(s) : s[i] = x /\ \A j \in 1..(i - 1) : s[j] # x) - 1
    ELSE -1

\* getAvailableProviders: the priority it reports, the position in the list
ReportedPriority(p) == indexOf(providers, p) + 1

\* getAvailableProviders(): one entry per provider of the list, in list order
getAvailableProviders ==
    [i \in 1..Len(providers) |->
        [name |-> providers[i],
         enabled |-> isEnabled(providers[i]),
         priority |-> ReportedPriority(providers[i])]]

\* validateNotificationForProviders: the entry pushed for one provider, by
\* the try block when validateNotification returns and by the catch block
\* when it throws
CompatibilityEntry(p, n) ==
    IF validateNotification(n)
    THEN [name |-> p, canHandle |-> canHandle(p, n), valid |-> TRUE]
    ELSE [name |-> p, canHandle |-> FALSE, valid |-> FALSE,
          error |-> "Notification must have either title or body"]

\* Mutant: valid only when every entry can handle the notification
AllHandle(entries) == \A i \in DOMAIN entries : entries[i].canHandle

\* validation.valid: set to true by every entry of the try block whose
\* canHandle is true
AnyHandles(entries) == \E i \in DOMAIN entries : entries[i].canHandle

\* The providers the loop does not pass over: if (!provider.isEnabled()) continue
Consulted(ps) == SelectSeq(ps, isEnabled)

\* validateNotificationForProviders(n)
validateNotificationForProviders(n) ==
    LET on == Consulted(providers)
        entries == [i \in 1..Len(on) |-> CompatibilityEntry(on[i], n)]
        failed == SelectSeq(entries, LAMBDA e : ~e.valid)
    IN  [valid |-> AnyHandles(entries),
         providers |-> entries,
         errors |-> [i \in 1..Len(failed) |->
                        [provider |-> failed[i].name, error |-> failed[i].error]]]

\* A call of getAvailableProviders
GetAvailableProviders ==
    /\ query' = [op |-> "getAvailableProviders", returned |-> getAvailableProviders]
    /\ UNCHANGED <<svcVars, lastUpdate, dispVars, bulkVars, retryVars, schedVars, timeVars, pkgVars>>

\* A call of validateNotificationForProviders
ValidateNotificationForProviders ==
    /\ \E n \in Notifications :
        query' = [op |-> "validateNotificationForProviders", notification |-> n,
                  returned |-> validateNotificationForProviders(n)]
    /\ UNCHANGED <<svcVars, lastUpdate, dispVars, bulkVars, retryVars, schedVars, timeVars, pkgVars>>

----------------------------------------------------------------------------
(* The package index: its own provider instances and utils *)

\* The instances the index constructs: each enabled when its credentials are
\* in the environment, FirebaseProvider.init as in the service's instance
IndexInstances ==
    {i \in [enabled : [ProviderNames -> BOOLEAN], initialized : BOOLEAN] :
        i.enabled["Firebase"] = i.initialized}

\* The instances of an environment with every credential set
AllSetInstances == [enabled |-> [p \in ProviderNames |-> TRUE], initialized |-> TRUE]

InitIndex == pkg = AllSetInstances

\* firebase.isEnabled(), onesignal.isEnabled(), pusher.isEnabled() on them
IndexIsEnabled(p) ==
    IF p = "Firebase" THEN pkg.enabled[p] /\ pkg.initialized ELSE pkg.enabled[p]

\* The totalProviders literal of getConfiguredProviders
TotalProviders == 4

\* utils.getConfiguredProviders()
getConfiguredProviders ==
    LET reported == [p \in ProviderNames |-> IndexIsEnabled(p)]
        enabledCount == Cardinality({p \in ProviderNames : reported[p]})
    IN  [providers |-> reported,
         enabledCount |-> enabledCount,
         totalProviders |-> TotalProviders,
         allConfigured |-> enabledCount = TotalProviders]

\* A call of utils.getConfiguredProviders
GetConfiguredProviders ==
    /\ query' = [op |-> "getConfiguredProviders", returned |-> getConfiguredProviders]
    /\ UNCHANGED <<svcVars, lastUpdate, dispVars, bulkVars, retryVars, schedVars, timeVars, pkgVars>>

----------------------------------------------------------------------------
(* NotificationService.sendBulkNotifications *)

\* The notifications a bulk call is given in the model
BulkNotifications ==
    {[title |-> TRUE, body |-> "text", target |-> TRUE],
     [title |-> TRUE, body |-> "absent", target |-> FALSE]}

BulkOptions ==
    {[provider |-> "", enableFailover |-> TRUE], [provider |-> "pusher", enableFailover |-> TRUE]}

BulkLists == UNION {[1..k -> BulkNotifications] : k \in 0..MaxBulk}

InitBulk ==
    /\ bulkList = <<>>
    /\ bulkI = 0
    /\ bulkResults = <<>>
    /\ totalSuccessful = 0
    /\ totalFailed = 0
    /\ bulkPc = "idle"
    /\ bulkHistory = <<>>

\* notification.body.substring(...): a TypeError when body is undefined
substringThrows(n) == n.body = "absent"

\* Mutant: entries indexed from 1
BulkEntryOneBased(i, n, d) ==
    [index |-> i + 1, notification |-> [title |-> n.title, body |-> n.body],
     result |-> d.outcome.kind, success |-> d.pc = "returned"]

\* The entry pushed for item i (0-based) whose dispatch ended as d; of the
\* dispatch's result object or error message the entry keeps the kind
BulkEntry(i, n, d) ==
    IF d.pc = "returned"
    THEN [index |-> i, notification |-> [title |-> n.title, body |-> n.body],
          result |-> d.outcome.kind, success |-> TRUE]
    ELSE [index |-> i, notification |-> [title |-> n.title, body |-> n.body],
          error |-> d.outcome.kind, success |-> FALSE]

\* A caller invokes sendBulkNotifications(list, o): the loop's first
\* iteration calls sendNotification on item 0; an empty list returns at once
SendBulkNotifications ==
    /\ bulkPc = "idle"
    /\ dispatch.pc = "idle"
    /\ \E list \in BulkLists, o \in BulkOptions :
        /\ bulkList' = list
        /\ options' = o
        /\ IF Len(list) = 0
           THEN /\ bulkPc' = "returned"
                /\ UNCHANGED <<notification, dispatch>>
           ELSE /\ bulkPc' = "running"
                /\ notification' = list[1]
                /\ dispatch' = BeginDispatch(list[1], o)
    /\ bulkI' = 0
    /\ bulkResults' = <<>>
    /\ totalSuccessful' = 0
    /\ totalFailed' = 0
    /\ bulkHistory' = <<>>
    /\ UNCHANGED <<svcVars, retryVars, mgmtVars, schedVars, timeVars, pkgVars>>

\* The await of item i's sendNotification completes: the try block or the
\* catch block records the item, and the loop goes to item i + 1 or returns.
\* Both blocks build the entry with notification.body.substring, so an
\* undefined body throws out of the catch block and out of the call.
BulkItemDone ==
    /\ BulkContinuationDue
    /\ bulkHistory' = Append(bulkHistory, dispatch.pc)
    /\ IF substringThrows(notification)
       THEN /\ bulkPc' = "threw"
            /\ dispatch' = NewDispatch
            /\ UNCHANGED <<bulkI, bulkResults, totalSuccessful, totalFailed, notification>>
       ELSE /\ bulkResults' = Append(bulkResults, BulkEntry(bulkI, notification, dispatch))
            /\ totalSuccessful' = IF dispatch.pc = "returned" THEN totalSuccessful + 1
                                  ELSE totalSuccessful
            /\ totalFailed' = IF dispatch.pc = "returned" THEN totalFailed
                              ELSE totalFailed + 1
            /\ bulkI' = bulkI + 1
            /\ IF bulkI + 1 < Len(bulkList)
               THEN /\ notification' = bulkList[bulkI + 2]
                    /\ dispatch' = BeginDispatch(bulkList[bulkI + 2], options)
                    /\ bulkPc' = "running"
               ELSE /\ bulkPc' = "returned"
                    /\ dispatch' = NewDispatch
                    /\ UNCHANGED notification
    /\ UNCHANGED <<svcVars, options, bulkList, retryVars, mgmtVars, schedVars, timeVars, pkgVars>>

\* What a bulk call that returned gives its caller
BulkReturnValue ==
    [total |-> Len(bulkList), successful |-> totalSuccessful, failed |-> totalFailed,
     results |-> bulkResults]

\* The caller of sendBulkNotifications has its result or its error
BulkReturns ==
    /\ bulkPc \in Final
    /\ bulkPc' = "idle"
    /\ UNCHANGED <<svcVars, dispVars, bulkList, bulkI, bulkResults, totalSuccessful,
                   totalFailed, bulkHistory, retryVars, mgmtVars, schedVars, timeVars, pkgVars>>

----------------------------------------------------------------------------
(* BaseProvider.sendWithRetry on its own, against a send whose k-th call      *)
(* resolves with receipt k when rOutcomes[k] and rejects with error k if not *)

InitRetry ==
    /\ rAttempts = retryAttempts
    /\ rOutcomes = [k \in 1..MaxAttempts |-> TRUE]
    /\ rI = 0
    /\ rPc = "idle"
    /\ rCalls = 0
    /\ rDelays = <<>>
    /\ rResult = [kind |-> "none"]

\* sendWithRetry(notification, attempts) is called: the loop test, then the
\* first send
SendWithRetry ==
    /\ rPc = "idle"
    /\ \E a \in 0..MaxAttempts, f \in [1..MaxAttempts -> BOOLEAN] :
        /\ rAttempts' = a
        /\ rOutcomes' = f
        /\ IF 0 < a
           THEN rPc' = "sending" /\ rCalls' = 1 /\ rResult' = [kind |-> "none"]
           ELSE rPc' = "done" /\ rCalls' = 0 /\ rResult' = [kind |-> "undefined"]
    /\ rI' = 0
    /\ rDelays' = <<>>
    /\ UNCHANGED <<svcVars, dispVars, bulkVars, mgmtVars, schedVars, timeVars, pkgVars>>

\* The send of attempt rI settles: return its receipt, or rethrow its error
\* on the last attempt, or start the backoff
RetrySendSettles ==
    /\ rPc = "sending"
    /\ IF rOutcomes[rCalls]
       THEN /\ rPc' = "done"
            /\ rResult' = [kind |-> "returned", receipt |-> rCalls]
            /\ UNCHANGED rDelays
       ELSE IF IsLastAttempt(rI, rAttempts)
       THEN /\ rPc' = "done"
            /\ rResult' = [kind |-> "threw", error |-> rCalls]
            /\ UNCHANGED rDelays
       ELSE /\ rPc' = "delay"
            /\ rDelays' = Append(rDelays, BackoffDelay(rI))
            /\ UNCHANGED rResult
    /\ UNCHANGED <<rAttempts, rOutcomes, rI, rCalls, svcVars, dispVars, bulkVars, mgmtVars, schedVars, timeVars, pkgVars>>

\* The backoff ends: i++, the loop test, the next send
RetryBackoffOver ==
    /\ rPc = "delay"
    /\ rI' = rI + 1
    /\ IF rI + 1 < rAttempts
       THEN rPc' = "sending" /\ rCalls' = rCalls + 1 /\ UNCHANGED rResult
       ELSE rPc' = "done" /\ rResult' = [kind |-> "undefined"] /\ UNCHANGED rCalls
    /\ UNCHANGED <<rAttempts, rOutcomes, rDelays, svcVars, dispVars, bulkVars, mgmtVars, schedVars, timeVars, pkgVars>>

\* The caller of sendWithRetry has its receipt or its error
RetryReturns ==
    /\ rPc = "done"
    /\ rPc' = "idle"
    /\ UNCHANGED <<rAttempts, rOutcomes, rI, rCalls, rDelays, rResult,
                   svcVars, dispVars, bulkVars, mgmtVars, schedVars, timeVars, pkgVars>>

----------------------------------------------------------------------------
(* SchedulerService: the schedule of a job *)

\* Strings the code looks into (schedule.time) are sequences of characters
Digits == {"0", "1", "2", "3", "4", "5", "6", "7", "8", "9"}

DigitValue(c) ==
    CASE c = "0" -> 0 [] c = "1" -> 1 [] c = "2" -> 2 [] c = "3" -> 3 [] c = "4" -> 4
      [] c = "5" -> 5 [] c = "6" -> 6 [] c = "7" -> 7 [] c = "8" -> 8 [] c = "9" -> 9

\* /^([0-1]?[0-9]|2[0-3]):[0-5][0-9]$/.test(s): the optional first digit
\* makes a one-digit hour match too
TimePattern(s) ==
    \/ /\ Len(s) = 4
       /\ s[1] \in Digits
       /\ s[2] = ":"
       /\ s[3] \in {"0", "1", "2", "3", "4", "5"}
       /\ s[4] \in Digits
    \/ /\ Len(s) = 5
       /\ \/ s[1] \in {"0", "1"} /\ s[2] \in Digits
          \/ s[1] = "2" /\ s[2] \in {"0", "1", "2", "3"}
       /\ s[3] = ":"
       /\ s[4] \in {"0", "1", "2", "3", "4", "5"}
       /\ s[5] \in Digits

\* The test of line 40: !time is true of the empty string
InvalidTimeFormat(time) == time = <<>> \/ ~TimePattern(time)

\* Number(s) on a string of digits
RECURSIVE Number(_)
Number(s) ==
    IF s = <<>> THEN 0 ELSE 10 * Number(SubSeq(s, 1, Len(s) - 1)) + DigitValue(s[Len(s)])

\* time.split(':').map(Number), on a time that passed the test
SplitTime(time) ==
    LET colon == CHOOSE k \in 1..Len(time) : time[k] = ":"
    IN  [hours |-> Number(SubSeq(time, 1, colon - 1)),
         minutes |-> Number(SubSeq(time, colon + 1, Len(time)))]

\* Instants are milliseconds since midnight UTC of day 0
MsPerSecond == 1000
MsPerMinute == 60 * MsPerSecond
MsPerHour == 60 * MsPerMinute
MsPerDay == 24 * MsPerHour

\* moment-timezone: the zones it knows, among those of the model, and their
\* offsets from UTC in minutes; a name it does not know leaves the moment in UTC
KnownZones == {"UTC", "Asia/Kolkata"}
Timezones == KnownZones \cup {"Mars/Phobos"}
ZoneOffset(timezone) == IF timezone = "Asia/Kolkata" THEN 330 ELSE 0

\* moment.tz(timezone) at the instant the clock shows: the wall-clock time there
WallClock(instant, timezone) == instant + ZoneOffset(timezone) * MsPerMinute

\* moment getters and setters, on a wall-clock time
DayOf(t) == t \div MsPerDay
HourOf(t) == (t % MsPerDay) \div MsPerHour
MinuteOf(t) == (t % MsPerHour) \div MsPerMinute
SecondOf(t) == (t % MsPerMinute) \div MsPerSecond
SetHours(t, h) == t + (h - HourOf(t)) * MsPerHour
SetMinutes(t, m) == t + (m - MinuteOf(t)) * MsPerMinute
SetSeconds(t, sec) == t + (sec - SecondOf(t)) * MsPerSecond

\* targetTime.format('YYYY-MM-DD HH:mm:ss z'): the milliseconds are not shown
Format(t, timezone) ==
    [day |-> DayOf(t), hours |-> HourOf(t), minutes |-> MinuteOf(t),
     seconds |-> SecondOf(t), zone |-> timezone]

\* Lines 57-62: now and targetTime come from two readings of the clock, now
\* and now2; seconds(0) leaves the milliseconds of the second reading in place
OnceTarget(now, now2, timezone, hours, minutes) ==
    LET targetTime ==
            SetSeconds(SetMinutes(SetHours(WallClock(now2, timezone), hours), minutes), 0)
    IN  IF targetTime < WallClock(now, timezone) THEN targetTime + MsPerDay ELSE targetTime

\* Lines 52-67: the cron expression and scheduledFor.  The day of the
\* expression stands for its day-of-month and month fields, a string as
\* they are: the number of the day, or "*" for every day.
ScheduleOf(time, timezone, frequency, now, now2) ==
    LET hm == SplitTime(time)
        targetTime == OnceTarget(now, now2, timezone, hm.hours, hm.minutes)
    IN  IF frequency = "daily"
        THEN [time |-> time, timezone |-> timezone, frequency |-> frequency,
              cronExpression |-> [minute |-> hm.minutes, hour |-> hm.hours, day |-> "*"],
              scheduledFor |-> [text |-> "daily"]]
        ELSE [time |-> time, timezone |-> timezone, frequency |-> frequency,
              cronExpression |-> [minute |-> hm.minutes, hour |-> hm.hours,
                                  day |-> ToString(DayOf(targetTime))],
              scheduledFor |-> Format(targetTime, timezone)]

----------------------------------------------------------------------------
(* SchedulerService: the schedule computation studied alone *)

\* The time strings given to it: well-formed, one-digit hour, out of range,
\* empty, and malformed in other ways
TimeStrings ==
    {<<"0", "9", ":", "0", "0">>, <<"9", ":", "0", "0">>, <<"2", "5", ":", "0", "0">>,
     <<>>, <<"2", "3", ":", "5", "9">>, <<"0", "0", ":", "0", "0">>,
     <<"2", "4", ":", "0", "0">>, <<"1", "2", ":", "6", "0">>, <<"0", "9", "0", "0">>,
     <<"0", "9", ":", "0">>, <<"0", "9", ":", "0", "0", "0">>, <<"1", "9", ":", "3", "0">>}

\* The values of schedule.frequency and schedule.timezone; "undefined" is the
\* missing field, which the destructuring of line 37 replaces by its default
Frequencies == {"undefined", "once", "daily", "weekly"}
TimezoneInputs == Timezones \cup {"undefined"}
Default(value, default) == IF value = "undefined" THEN default ELSE value

\* The instants at which the clock is read: around midnight, around the
\* requested times, and in every part of a second
ClockInstants ==
    {h * MsPerHour + m * MsPerMinute + sec * MsPerSecond + ms :
        h \in {0, 8, 9, 10, 18, 23}, m \in {0, 30, 59}, sec \in {0, 1, 59}, ms \in {0, 1, 500, 999}}

\* The clock's next reading in the same synchronous segment: the same
\* millisecond or the next one
NextReadings(now) == {now, now + 1}

NoTrigger == [time |-> <<>>, timezone |-> "", frequency |-> "", now |-> 0, now2 |-> 0,
              status |-> "none", value |-> [none |-> TRUE]]

InitTime == trigger = NoTrigger

\* Lines 37-67 of scheduleNotification as a function of the schedule and the clock
ComputeSchedule ==
    /\ trigger.status = "none"
    /\ \E time \in TimeStrings, z \in TimezoneInputs, f \in Frequencies, now \in ClockInstants :
        \E now2 \in NextReadings(now) :
            trigger' =
                [time |-> time, timezone |-> Default(z, "UTC"),
                 frequency |-> Default(f, "once"),
                 now |-> now, now2 |-> now2,
                 status |-> IF InvalidTimeFormat(time) THEN "threw" ELSE "returned",
                 value |-> IF InvalidTimeFormat(time)
                           THEN [message |-> "Invalid time format. Use HH:MM format"]
                           ELSE ScheduleOf(time, Default(z, "UTC"), Default(f, "once"),
                                           now, now2)]
    /\ UNCHANGED <<svcVars, dispVars, bulkVars, retryVars, mgmtVars, schedVars, pkgVars>>

----------------------------------------------------------------------------
(* SchedulerService: the registry of jobs and their cron tasks *)

\* Date.now() and Math.random() decide a job id; nothing in the code compares
\* it with the ids in use, so the model draws it from a small set
JobIds == {"notif_1", "notif_2"}

\* The scheduleNotification calls of the model: notification and schedule
SchedNotifications == BulkNotifications

\* ... where the life of the jobs is studied: a 'once' schedule left to the
\* defaults, a 'daily' one, and one with a time out of range
SchedSchedules ==
    {[time |-> <<"0", "9", ":", "0", "0">>, timezone |-> "undefined", frequency |-> "undefined"],
     [time |-> <<"0", "9", ":", "0", "0">>, timezone |-> "UTC", frequency |-> "daily"],
     [time |-> <<"2", "5", ":", "0", "0">>, timezone |-> "UTC", frequency |-> "once"]}

\* ... where the validation of the schedule is studied: also another
\* frequency, a one-digit hour, a zone moment-timezone does not know, no time
AnySchedules ==
    SchedSchedules \cup
    {[time |-> <<"0", "9", ":", "0", "0">>, timezone |-> "Asia/Kolkata", frequency |-> "weekly"],
     [time |-> <<"9", ":", "0", "0">>, timezone |-> "UTC", frequency |-> "once"],
     [time |-> <<"0", "9", ":", "0", "0">>, timezone |-> "Mars/Phobos", frequency |-> "once"],
     [time |-> <<>>, timezone |-> "UTC", frequency |-> "daily"]}

\* The instant of the calls: ten o'clock UTC of day 0
SchedClock == {10 * MsPerHour}

NoCall == [op |-> "none", status |-> "none", value |-> [none |-> TRUE]]

InitSched ==
    /\ running = FALSE
    /\ jobs = <<>>
    /\ tasks = <<>>
    /\ lastCall = NoCall
    /\ issued = <<>>

\* cron.schedule(expression, callback, {scheduled, timezone}): a task, whose
\* callback holds jobId and frequency; it starts only if scheduled is set
NewTask(jobId, frequency, scheduled) ==
    [jobId |-> jobId, frequency |-> frequency,
     state |-> IF scheduled THEN "started" ELSE "created",
     inflight |-> 0,    \* the callbacks of the task that await their dispatch
     fired |-> FALSE]   \* history: the callback has run at least once

\* node-cron gives the timezone to Intl.DateTimeFormat: when the task is made,
\* or only when it first looks at the clock, depending on its version
CronScheduleMayThrow(timezone) == timezone \notin KnownZones

\* Mutant: the task is made with node-cron's default, scheduled: true
ScheduledOptionDefault == TRUE

\* The scheduled option of line 88
ScheduledOption == FALSE

\* task.start()
StartTask(ts, t) == [ts EXCEPT ![t].state = "started"]

\* Mutant: a stop that leaves the task as it was
StopTaskNoEffect(ts, t) == ts

\* task.stop()
StopTask(ts, t) == [ts EXCEPT ![t].state = "stopped"]

\* Map.delete
MapDelete(map, key) == [k \in DOMAIN map \ {key} |-> map[k]]

\* Map.set: a new entry, or the entry of that key replaced
MapSet(map, key, value) ==
    [k \in DOMAIN map \cup {key} |-> IF k = key THEN value ELSE map[k]]

\* The job record of lines 93-109, without createdAt and options; the task
\* is kept by its handle
JobRecord(jobId, n, schedule, t) ==
    [id |-> jobId, notification |-> [title |-> n.title, body |-> n.body],
     schedule |-> schedule, task |-> t]

\* start()
Start ==
    /\ running' = TRUE
    /\ lastCall' = [op |-> "start", status |-> "returned", value |-> [none |-> TRUE]]
    /\ UNCHANGED <<jobs, tasks, issued, svcVars, dispVars, bulkVars, retryVars, mgmtVars, timeVars, pkgVars>>

\* The tasks of the registry
RegistryTasks == {jobs[id].task : id \in DOMAIN jobs}

\* Mutant: stop() leaves the registry as it is
JobsKept == jobs

\* this.jobs.clear()
JobsCleared == <<>>

\* stop(): every job of the registry has its task stopped, the registry is
\* cleared and running is reset
Stop ==
    /\ tasks' = [t \in DOMAIN tasks |->
                    IF t \in RegistryTasks THEN [tasks[t] EXCEPT !.state = "stopped"]
                    ELSE tasks[t]]
    /\ jobs' = JobsCleared
    /\ running' = FALSE
    /\ lastCall' = [op |-> "stop", status |-> "returned", value |-> [none |-> TRUE]]
    /\ UNCHANGED <<issued, svcVars, dispVars, bulkVars, retryVars, mgmtVars, timeVars, pkgVars>>

\* scheduleNotification(n, schedule, notificationService) up to its throw
\* or its return; jobId and cronThrows are what Date.now, Math.random and
\* node-cron yield
ScheduleCall(n, schedule, now, now2, jobId, cronThrows) ==
    LET timezone == Default(schedule.timezone, "UTC")
        frequency == Default(schedule.frequency, "once")
        t == Len(tasks) + 1
        made == Append(tasks, NewTask(jobId, frequency, ScheduledOption))
        Threw(ts, message) ==
            /\ tasks' = ts
            /\ lastCall' = [op |-> "scheduleNotification", status |-> "threw",
                            value |-> [message |-> message]]
            /\ UNCHANGED <<jobs, issued>>
    IN  IF ~running
        THEN Threw(tasks, "Scheduler service is not running")
        ELSE IF InvalidTimeFormat(schedule.time)
        THEN Threw(tasks, "Invalid time format. Use HH:MM format")
        ELSE IF cronThrows
        THEN Threw(tasks, "RangeError")
        ELSE IF substringThrows(n)
        THEN Threw(made, "TypeError")
        ELSE LET computed == ScheduleOf(schedule.time, timezone, frequency, now, now2)
             IN  /\ jobs' = MapSet(jobs, jobId, JobRecord(jobId, n, computed, t))
                 /\ tasks' = StartTask(made, t)
                 /\ issued' = Append(issued, jobId)
                 /\ lastCall' = [op |-> "scheduleNotification", status |-> "returned",
                                 value |-> [jobId |-> jobId,
                                            scheduledFor |-> computed.scheduledFor,
                                            frequency |-> frequency,
                                            timezone |-> timezone,
                                            cronExpression |-> computed.cronExpression]]

\* A scheduleNotification call with one of the schedules given
ScheduleNotificationWith(schedules) ==
    /\ Len(tasks) < MaxTasks
    /\ \E n \in SchedNotifications, schedule \in schedules, now \in SchedClock,
          jobId \in JobIds, cronThrows \in BOOLEAN :
        /\ cronThrows => CronScheduleMayThrow(Default(schedule.timezone, "UTC"))
        /\ \E now2 \in NextReadings(now) :
            ScheduleCall(n, schedule, now, now2, jobId, cronThrows)
    /\ UNCHANGED <<running, svcVars, dispVars, bulkVars, retryVars, mgmtVars, timeVars, pkgVars>>

ScheduleNotification == ScheduleNotificationWith(SchedSchedules)

ScheduleAnyNotification == ScheduleNotificationWith(AnySchedules)

\* removeJob(jobId) on the registry and tasks given: what they become, and
\* the value returned
removeJob(js, ts, jobId) ==
    IF jobId \in DOMAIN js
    THEN [jobs |-> MapDelete(js, jobId), tasks |-> StopTask(ts, js[jobId].task),
          returned |-> TRUE]
    ELSE [jobs |-> js, tasks |-> ts, returned |-> FALSE]

\* removeJob called from outside (DELETE /scheduled/:jobId)
RemoveJob(jobId) ==
    LET r == removeJob(jobs, tasks, jobId)
    IN  /\ jobs' = r.jobs
        /\ tasks' = r.tasks
        /\ lastCall' = [op |-> "removeJob", status |-> "returned",
                        value |-> [returned |-> r.returned]]
        /\ UNCHANGED <<running, issued, svcVars, dispVars, bulkVars, retryVars, mgmtVars, timeVars, pkgVars>>

\* The callbacks that await their sendNotification
RECURSIVE Inflight(_)
Inflight(ts) == IF ts = <<>> THEN 0 ELSE ts[1].inflight + Inflight(Tail(ts))

\* The clock reaches a time that task t's expression matches: node-cron runs
\* the callback, which calls sendNotification and awaits it
TriggerFires(t) ==
    /\ tasks[t].state = "started"
    /\ Inflight(tasks) < MaxInflight
    /\ tasks' = [tasks EXCEPT ![t].inflight = @ + 1, ![t].fired = TRUE]
    /\ lastCall' = [op |-> "callback", status |-> "awaiting",
                    value |-> [frequency |-> tasks[t].frequency, dispatch |-> "started"]]
    /\ UNCHANGED <<running, jobs, issued, svcVars, dispVars, bulkVars, retryVars, mgmtVars, timeVars, pkgVars>>

\* Mutant: no catch block, the rejection leaves the callback
CallbackEndsUncaught(ok) == IF ok THEN "resolved" ELSE "rejected"

\* Lines 70-89: the callback's whole body is a try block whose catch block
\* logs the error, so its promise resolves whatever sendNotification did
CallbackEnds(ok) == "resolved"

\* Mutant: the catch block leaves the job in place
RemovesAfterDispatchOnSuccessOnly(frequency, ok) == frequency = "once" /\ ok

\* Lines 79 and 86: both blocks of the callback remove a 'once' job
RemovesAfterDispatch(frequency, ok) == frequency = "once"

\* The sendNotification awaited by a callback of task t returns (ok) or
\* throws; the try block or the catch block runs to the callback's end
DispatchSettles(t, ok) ==
    LET settled == [tasks EXCEPT ![t].inflight = @ - 1]
        r == IF RemovesAfterDispatch(tasks[t].frequency, ok)
             THEN removeJob(jobs, settled, tasks[t].jobId)
             ELSE [jobs |-> jobs, tasks |-> settled, returned |-> FALSE]
    IN  /\ tasks[t].inflight > 0
        /\ jobs' = r.jobs
        /\ tasks' = r.tasks
        /\ lastCall' = [op |-> "callback", status |-> CallbackEnds(ok),
                        value |-> [frequency |-> tasks[t].frequency,
                                   dispatch |-> IF ok THEN "sent" ELSE "failed"]]
        /\ UNCHANGED <<running, issued, svcVars, dispVars, bulkVars, retryVars, mgmtVars, timeVars, pkgVars>>

\* getActiveJobs(): the snapshots of the registry's jobs, without their
\* tasks; the tasks have no getStatus, so status is 'unknown'
getActiveJobs ==
    {[id |-> jobs[id].id, notification |-> jobs[id].notification,
      schedule |-> jobs[id].schedule, status |-> "unknown"] : id \in DOMAIN jobs}

\* JavaScript's null
null == [null |-> TRUE]

\* getJob(jobId): the snapshot, or null
getJob(jobId) ==
    IF jobId \in DOMAIN jobs
    THEN [id |-> jobs[jobId].id, notification |-> jobs[jobId].notification,
          schedule |-> jobs[jobId].schedule, status |-> "unknown"]
    ELSE null

----------------------------------------------------------------------------
(* Specifications *)

\* The service after construction, with any configuration
\* The service and the scheduler as constructed, on every configuration
InitModules ==
    /\ InitService /\ InitConfig /\ InitDispatch /\ InitBulk /\ InitRetry
    /\ InitUpdate /\ InitQuery /\ InitTime /\ InitSched

\* Nothing of the service or the scheduler reads the index's instances: their
\* specifications start from the index of an environment with every
\* credential set
InitAnyConfig == InitModules /\ InitIndex

\* Dispatch, retry and scheduling never read the credentials (the transports
\* do, and they may fail in any case): their specifications start from the
\* services whose credentials are all set
Init == InitAnyConfig /\ config = CompleteConfig

\* Direct dispatches, with management calls in between and during them
Next ==
    \/ SendNotification
    \/ TransportResolves
    \/ TransportRejects
    \/ BackoffElapses
    \/ DispatchReturns
    \/ UpdateProviderStatus

Spec == Init /\ [][Next]_vars

\* The same with the waits of a dispatch coming to an end: every transport
\* call settles and every setTimeout fires
SpecFair ==
    /\ Init /\ [][Next]_vars
    /\ WF_vars(TransportResolves \/ TransportRejects)
    /\ WF_vars(BackoffElapses)

\* Bulk dispatches, with management calls in between and during them
NextBulk ==
    \/ SendBulkNotifications
    \/ TransportResolves
    \/ TransportRejects
    \/ BackoffElapses
    \/ BulkItemDone
    \/ BulkReturns
    \/ UpdateProviderStatus

SpecBulk == Init /\ [][NextBulk]_vars

\* sendWithRetry on its own
NextRetry ==
    \/ SendWithRetry
    \/ RetrySendSettles
    \/ RetryBackoffOver
    \/ RetryReturns

SpecRetry == Init /\ [][NextRetry]_vars

\* The management call on its own
NextPatch == PatchProvider

SpecPatch == Init /\ [][NextPatch]_vars

\* The management call and the read-only calls, on every configuration
NextService ==
    \/ UpdateProviderStatus
    \/ GetAvailableProviders
    \/ ValidateNotificationForProviders

SpecService == InitAnyConfig /\ [][NextService]_vars

\* Dispatches, management calls and listings on a service constructed with
\* at least one provider's flag off
InitPartial == Init /\ Len(providers) <= 2

NextList ==
    \/ SendListedNotification
    \/ TransportResolves
    \/ TransportRejects
    \/ BackoffElapses
    \/ DispatchReturns
    \/ PatchProvider
    \/ GetAvailableProviders

SpecList == InitPartial /\ [][NextList]_vars

\* The read-only calls the package exports, on the index of every environment
InitAnyIndex == InitModules /\ config = CompleteConfig /\ pkg \in IndexInstances

NextIndex ==
    \/ GetConfiguredProviders
    \/ GetAvailableProviders
    \/ ValidateNotificationForProviders

SpecIndex == InitAnyIndex /\ [][NextIndex]_vars

\* The scheduler does not look at the providers: its specifications start
\* from the service with its three providers configured
InitAllProviders == Init /\ Len(providers) = 3 /\ initialized

\* The schedule computation on its own
NextTime == ComputeSchedule

SpecTime == InitAllProviders /\ [][NextTime]_vars

\* The scheduler: its calls, its triggers and the dispatches they start
NextSched ==
    \/ Start
    \/ Stop
    \/ ScheduleNotification
    \/ \E jobId \in JobIds : RemoveJob(jobId)
    \/ \E t \in DOMAIN tasks : TriggerFires(t)
    \/ \E t \in DOMAIN tasks, ok \in BOOLEAN : DispatchSettles(t, ok)

SpecSched == InitAllProviders /\ [][NextSched]_vars

\* The scheduler's calls alone, with every schedule of the model
NextSchedCalls ==
    \/ Start
    \/ Stop
    \/ ScheduleAnyNotification
    \/ \E jobId \in JobIds : RemoveJob(jobId)

SpecSchedCalls == InitAllProviders /\ [][NextSchedCalls]_vars

----------------------------------------------------------------------------
(* Properties of the failover dispatch *)

\* A sendNotification call has ended (returned or thrown) on the failover path
FailoverEnded == dispatch.pc \in Final /\ options.provider = ""

\* ... on the explicit-provider path
ExplicitEnded == dispatch.pc \in Final /\ options.provider # ""

\* The providers the failover loop found enabled and able to handle the
\* notification when it reached them
EligibleReached == {p \in ProviderNames : dispatch.reached[p] = "eligible"}

\* The providers the failover loop skipped
SkippedReached == {p \in ProviderNames : dispatch.reached[p] \in {"disabled", "unsupported"}}

NonSkipped(errs) == {i \in 1..Len(errs) : ~errs[i].skipped}

\* C1: on the failover path, when the highest-priority provider is enabled,
\* can handle the notification and its sendWithRetry succeeds, the result
\* names it as usedProvider and send was called on no other provider.
C1_FirstProviderWins ==
    (/\ FailoverEnded
     /\ Len(providers) >= 1
     /\ dispatch.reached[providers[1]] = "eligible"
     /\ dispatch.retried[providers[1]] = "ok")
    => /\ dispatch.pc = "returned"
       /\ dispatch.outcome.kind = "success"
       /\ dispatch.outcome.usedProvider = providers[1]
       /\ \A i \in 2..Len(providers) : dispatch.sendCalls[providers[i]] = 0

\* The first of three providers succeeded on a retry; the others are enabled
C1_Witness ==
    /\ FailoverEnded
    /\ Len(providers) = 3
    /\ dispatch.retried[providers[1]] = "ok"
    /\ dispatch.sendCalls[providers[1]] = 2
    /\ \A i \in 2..3 : isEnabled(providers[i])

\* C2: on the failover path, when the highest-priority provider is eligible
\* and its sendWithRetry fails and the next eligible provider succeeds, the
\* dispatch succeeds, its errors hold a non-skipped entry for the first, the
\* second is usedProvider, and send was called on no provider after it.
C2_SecondProviderTakesOver ==
    \A j \in 2..Len(providers) :
        (/\ FailoverEnded
         /\ dispatch.reached[providers[1]] = "eligible"
         /\ dispatch.retried[providers[1]] = "failed"
         /\ \A k \in 2..(j - 1) : dispatch.reached[providers[k]] # "eligible"
         /\ dispatch.retried[providers[j]] = "ok")
        => /\ dispatch.pc = "returned"
           /\ dispatch.outcome.kind = "success"
           /\ dispatch.outcome.usedProvider = providers[j]
           /\ \E e \in 1..Len(dispatch.outcome.errors) :
                /\ dispatch.outcome.errors[e].provider = providers[1]
                /\ ~dispatch.outcome.errors[e].skipped
           /\ \A k \in (j + 1)..Len(providers) : dispatch.sendCalls[providers[k]] = 0

\* The first provider failed after three sends, the second succeeded, and a
\* third, enabled, was left alone
C2_Witness ==
    /\ FailoverEnded
    /\ Len(providers) = 3
    /\ dispatch.retried[providers[1]] = "failed"
    /\ dispatch.sendCalls[providers[1]] = 3
    /\ dispatch.retried[providers[2]] = "ok"
    /\ isEnabled(providers[3])

\* C3 as claimed: when every eligible provider fails (there is at least one),
\* the dispatch throws the all-providers-failed error and the number of its
\* entries equals the number of eligible providers.
C3_Original ==
    (/\ FailoverEnded
     /\ EligibleReached # {}
     /\ \A p \in EligibleReached : dispatch.retried[p] = "failed")
    => /\ dispatch.outcome.kind = "AllFailed"
       /\ Len(dispatch.outcome.errors) = Cardinality(EligibleReached)

\* C3 as amended: when every eligible provider fails (there is at least one),
\* the dispatch throws the all-providers-failed error, which lists every
\* configured provider in list order, the skipped ones flagged skipped, and
\* the number of its non-skipped entries equals the number of eligible
\* providers.
C3_AllFailedListsEveryProvider ==
    (/\ FailoverEnded
     /\ EligibleReached # {}
     /\ \A p \in EligibleReached : dispatch.retried[p] = "failed")
    => /\ dispatch.pc = "threw"
       /\ dispatch.outcome.kind = "AllFailed"
       /\ Len(dispatch.outcome.errors) = Len(providers)
       /\ \A i \in 1..Len(providers) :
            /\ dispatch.outcome.errors[i].provider = providers[i]
            /\ dispatch.outcome.errors[i].skipped = (providers[i] \in SkippedReached)
       /\ Cardinality(NonSkipped(dispatch.outcome.errors)) = Cardinality(EligibleReached)

\* Two providers failed and one was skipped
C3_Witness ==
    /\ FailoverEnded
    /\ dispatch.outcome.kind = "AllFailed"
    /\ Cardinality(EligibleReached) = 2
    /\ Cardinality(SkippedReached) = 1

\* C4 as claimed, for a named provider that is in the list with isEnabled()
\* false when the call is made: the dispatch throws provider-not-found and
\* send is called on no provider.
C4_Original ==
    (/\ ExplicitEnded
     /\ FindProvider(options.provider) # 0
     /\ ~dispatch.namedUsable)
    => /\ dispatch.outcome.kind = "NotFound"
       /\ \A p \in ProviderNames : dispatch.sendCalls[p] = 0

\* C5: on the explicit path, when the named provider is configured and its
\* sendWithRetry fails, the dispatch throws an error carrying that
\* provider's name and send was called on no other provider.
C5_ExplicitFailureNoFailover ==
    \A f \in 1..Len(providers) :
        (/\ ExplicitEnded
         /\ f = FindProvider(options.provider)
         /\ dispatch.retried[providers[f]] = "failed")
        => /\ dispatch.pc = "threw"
           /\ dispatch.outcome.kind = "SendFailedVia"
           /\ toLowerCase(dispatch.outcome.provider) = toLowerCase(providers[f])
           /\ \A q \in ProviderNames \ {providers[f]} : dispatch.sendCalls[q] = 0

\* The named provider failed three sends while another provider was enabled
C5_Witness ==
    /\ ExplicitEnded
    /\ dispatch.outcome.kind = "SendFailedVia"
    /\ \E f \in 1..Len(providers) :
        /\ f = FindProvider(options.provider)
        /\ dispatch.sendCalls[providers[f]] = 3
        /\ dispatch.namedUsable
        /\ \E g \in 1..Len(providers) : g # f /\ isEnabled(providers[g])

\* C6: on the failover path, a provider that is not enabled or cannot handle
\* the notification when the loop reaches it gets no send call in that
\* dispatch and is recorded as skipped; failedProviders counts the failed
\* providers only, never a skipped one; a successful dispatch reports one
\* delivery result and successfulProviders = 1.
C6_SkippedNeverSentNorFailed ==
    (dispatch.pc # "idle" /\ options.provider = "")
    => /\ \A p \in SkippedReached :
            /\ dispatch.sendCalls[p] = 0
            /\ dispatch.retried[p] = "none"
            /\ \E e \in 1..Len(dispatch.errors) :
                 dispatch.errors[e].provider = p /\ dispatch.errors[e].skipped
       /\ dispatch.pc = "returned" =>
            /\ dispatch.outcome.errors = dispatch.errors
            /\ dispatch.outcome.failedProviders =
                 Cardinality({p \in ProviderNames : dispatch.retried[p] = "failed"})
            /\ dispatch.outcome.skippedProviders = Cardinality(SkippedReached)
            /\ dispatch.outcome.successfulProviders = 1
            /\ Len(dispatch.outcome.results) = 1
            /\ Cardinality({p \in ProviderNames : dispatch.retried[p] = "ok"}) = 1

\* A dispatch succeeded on the third provider after one skip and one failure
C6_Witness ==
    /\ FailoverEnded
    /\ dispatch.pc = "returned"
    /\ dispatch.outcome.skippedProviders = 1
    /\ dispatch.outcome.failedProviders = 1

----------------------------------------------------------------------------
(* Properties of sendWithRetry *)

\* The 1-based index of the first of the first a send calls that resolves, 0
\* when none of them does
FirstSuccess(f, a) ==
    LET hits == {k \in 1..a : f[k]}
    IN  IF hits = {} THEN 0 ELSE CHOOSE k \in hits : \A m \in hits : k <= m

\* C7: sendWithRetry with attempts >= 1 calls send up to and including the
\* first call that resolves, and attempts times when none resolves; it
\* returns the receipt of that first resolving call, and when every call
\* rejects it throws the error of the last one.  While it runs it has made
\* no call beyond the first resolving one.
C7_RetryStopsAtFirstSuccess ==
    LET k == FirstSuccess(rOutcomes, rAttempts)
    IN  /\ (rPc = "done" /\ rAttempts >= 1) =>
            /\ rCalls = IF k # 0 THEN k ELSE rAttempts
            /\ k # 0 => rResult = [kind |-> "returned", receipt |-> k]
            /\ k = 0 => rResult = [kind |-> "threw", error |-> rAttempts]
        /\ (rPc \in {"sending", "delay"} /\ k # 0) => rCalls <= k

\* Four attempts allowed, the third send resolved after two rejections
C7_Witness ==
    /\ rPc = "done"
    /\ rAttempts = 4
    /\ rCalls = 3
    /\ rResult = [kind |-> "returned", receipt |-> 3]

\* C8 as claimed: with attempts = 3 and a send that rejects twice and then
\* resolves, sendWithRetry returns after exactly 3 send calls, having waited
\* 1x, 2x and 3x the base delay.
C8_Original ==
    (/\ rPc = "done"
     /\ rAttempts = 3
     /\ ~rOutcomes[1] /\ ~rOutcomes[2] /\ rOutcomes[3])
    => /\ rCalls = 3
       /\ rResult.kind = "returned"
       /\ rDelays = <<1 * retryDelay, 2 * retryDelay, 3 * retryDelay>>

\* C8 as amended: with attempts = 3 and a send that rejects twice and then
\* resolves, sendWithRetry returns after exactly 3 send calls, having waited
\* 1x the base delay (1000 ms) after the first and 2x after the second, and
\* nothing after the third.
C8_TwoBackoffsBetweenThreeSends ==
    (/\ rPc = "done"
     /\ rAttempts = 3
     /\ ~rOutcomes[1] /\ ~rOutcomes[2] /\ rOutcomes[3])
    => /\ rCalls = 3
       /\ rResult = [kind |-> "returned", receipt |-> 3]
       /\ rDelays = <<1000, 2000>>

\* The run of C8 has ended
C8_Witness ==
    /\ rPc = "done"
    /\ rAttempts = 3
    /\ ~rOutcomes[1] /\ ~rOutcomes[2] /\ rOutcomes[3]
    /\ rCalls = 3
    /\ Len(rDelays) = 2

----------------------------------------------------------------------------
(* Properties of sendBulkNotifications *)

\* C9: a bulk call over N notifications, each with a body string, returns
\* total = N, a results list of length N whose i-th entry has index i and
\* success exactly when item i's dispatch returned, successful and failed
\* counting those entries, so successful + failed = total = N; when exactly
\* one item's dispatch throws, successful = N - 1 and failed = 1.
C9_BulkCountsAndIndexes ==
    LET N == Len(bulkList)
        r == BulkReturnValue
        threw == {i \in 1..Len(bulkHistory) : bulkHistory[i] = "threw"}
    IN  /\ bulkPc = "returned" =>
            /\ r.total = N
            /\ Len(r.results) = N
            /\ Len(bulkHistory) = N
            /\ \A i \in 1..N :
                 /\ r.results[i].index = i - 1
                 /\ r.results[i].success = (bulkHistory[i] = "returned")
            /\ r.successful = N - Cardinality(threw)
            /\ r.failed = Cardinality(threw)
            /\ r.successful + r.failed = r.total
            /\ Cardinality(threw) = 1 => (r.successful = N - 1 /\ r.failed = 1)
        /\ bulkPc = "threw" => \E i \in 1..N : bulkList[i].body = "absent"

\* Of three notifications the second's dispatch threw, the others' returned
C9_Witness ==
    /\ bulkPc = "returned"
    /\ bulkHistory = <<"returned", "threw", "returned">>
    /\ totalSuccessful = 2
    /\ totalFailed = 1

\* C10 as claimed: for every list of notifications that provider validation
\* accepts, the body possibly absent, the bulk call does not throw and every
\* item gets its own result entry.
C10_Original ==
    (\A i \in 1..Len(bulkList) : validateNotification(bulkList[i]))
    => /\ bulkPc # "threw"
       /\ bulkPc = "returned" => Len(bulkResults) = Len(bulkList)

----------------------------------------------------------------------------
(* Properties of the schedule computation *)

\* The schedule computation returned for a 'once' schedule with a
\* two-digit-hour time and a zone moment-timezone knows
OnceComputed ==
    /\ trigger.status = "returned"
    /\ trigger.frequency = "once"
    /\ trigger.timezone \in KnownZones
    /\ Len(trigger.time) = 5

\* The wall-clock time in the schedule's zone when the call read the clock
TriggerLocalNow == WallClock(trigger.now, trigger.timezone)

\* The requested time of day on the day of that reading
TriggerToday ==
    DayOf(TriggerLocalNow) * MsPerDay + SplitTime(trigger.time).hours * MsPerHour
        + SplitTime(trigger.time).minutes * MsPerMinute

\* C11: for a 'once' schedule, at every instant and for every valid HH:MM,
\* scheduledFor is today's HH:MM in the schedule's zone when that time of day
\* has not yet passed, and tomorrow's HH:MM when it has already passed.
C11_Original ==
    OnceComputed =>
        trigger.value.scheduledFor =
            Format(IF TriggerToday >= TriggerLocalNow THEN TriggerToday
                   ELSE TriggerToday + MsPerDay, trigger.timezone)

\* A time string made of a two-digit hour 00-23, a colon and a two-digit
\* minute 00-59
TwoDigitTime(s) ==
    /\ Len(s) = 5
    /\ s[1] \in Digits /\ s[2] \in Digits /\ s[3] = ":" /\ s[4] \in Digits /\ s[5] \in Digits
    /\ 10 * DigitValue(s[1]) + DigitValue(s[2]) <= 23
    /\ 10 * DigitValue(s[4]) + DigitValue(s[5]) <= 59

----------------------------------------------------------------------------
(* Properties of the scheduler *)

\* A scheduleNotification step, given a schedule
ScheduleCallStep(schedule) ==
    /\ \E n \in SchedNotifications, now \in SchedClock, jobId \in JobIds, cronThrows \in BOOLEAN :
        /\ cronThrows => CronScheduleMayThrow(Default(schedule.timezone, "UTC"))
        /\ \E now2 \in NextReadings(now) :
            ScheduleCall(n, schedule, now, now2, jobId, cronThrows)

\* ... of a running scheduler
ScheduleStep(schedule) == running /\ ScheduleCallStep(schedule)

\* The last call was a scheduleNotification that threw the time-format error
FormatErrorThrown(call) ==
    /\ call.op = "scheduleNotification"
    /\ call.status = "threw"
    /\ call.value = [message |-> "Invalid time format. Use HH:MM format"]

\* C12: scheduleNotification rejects with the time-format error every time
\* string that is not a two-digit hour 00-23, a colon and a two-digit minute
\* 00-59 ("25:00", "9:00" and the empty string among them), and registers no
\* job in doing so.
C12_Original ==
    [][\A schedule \in AnySchedules :
        (ScheduleStep(schedule) /\ ~TwoDigitTime(schedule.time))
            => (FormatErrorThrown(lastCall') /\ jobs' = jobs)]_vars

\* C13: scheduleNotification validates the whole schedule: a call whose
\* timezone is not a known zone, or whose frequency is neither 'once' nor
\* 'daily', throws and registers no job; so every job of the registry has
\* frequency 'once' or 'daily'.
C13_Original ==
    [][/\ \A schedule \in AnySchedules :
            (/\ ScheduleStep(schedule)
             /\ \/ Default(schedule.timezone, "UTC") \notin KnownZones
                \/ Default(schedule.frequency, "once") \notin {"once", "daily"})
                => (lastCall'.status = "threw" /\ jobs' = jobs)
       /\ \A id \in DOMAIN jobs' : jobs'[id].schedule.frequency \in {"once", "daily"}]_vars

\* The tasks whose trigger is armed
StartedTasks == {t \in DOMAIN tasks : tasks[t].state = "started"}

\* C14: a scheduleNotification call that throws (scheduler not running, bad
\* time format, or an exception while the job record is built) leaves the
\* registry, the armed triggers and the running flag as they were, and the
\* task it may have made is never started, so it never calls the dispatcher.
\* (Every step of the scheduler writes its own name to lastCall, so a step
\* that leaves scheduleNotification there is a scheduleNotification call.)
C14_FailedScheduleChangesNothing ==
    [][/\ (lastCall'.op = "scheduleNotification" /\ lastCall'.status = "threw")
                => /\ jobs' = jobs
                   /\ StartedTasks' = StartedTasks
                   /\ running' = running
                   /\ issued' = issued
                   /\ \A t \in DOMAIN tasks' \ DOMAIN tasks : tasks'[t].state = "created"
       /\ \A t \in DOMAIN tasks :
            tasks[t].state = "created"
                => (tasks'[t].state = "created" /\ tasks'[t].inflight = 0)]_vars

\* A call threw while building the job record, with a job registered before:
\* that job is still there and the task made for the call is not started
C14_Witness ==
    /\ lastCall.op = "scheduleNotification"
    /\ lastCall.status = "threw"
    /\ lastCall.value = [message |-> "TypeError"]
    /\ DOMAIN jobs # {}
    /\ tasks[Len(tasks)].state = "created"

\* C15: when the dispatch of a fired 'once' job has completed, in success or
\* in failure, the job is absent from getActiveJobs() and getJob(jobId) is
\* null; when the dispatch of a fired 'daily' job has completed, the registry
\* is as it was, the job included.
C15_OnceRemovedDailyKept ==
    [][\A t \in DOMAIN tasks, ok \in BOOLEAN :
        DispatchSettles(t, ok)
            => /\ tasks[t].frequency = "once"
                    => /\ \A job \in getActiveJobs' : job.id # tasks[t].jobId
                       /\ getJob(tasks[t].jobId)' = null
               /\ tasks[t].frequency = "daily" => getActiveJobs' = getActiveJobs]_vars

\* The dispatch of a fired 'once' job failed, and the job is gone
C15_Witness ==
    /\ lastCall.op = "callback"
    /\ lastCall.value.dispatch = "failed"
    /\ lastCall.value.frequency = "once"
    /\ \E t \in DOMAIN tasks :
        /\ tasks[t].frequency = "once"
        /\ tasks[t].state = "stopped"
        /\ getJob(tasks[t].jobId) = null
    /\ getActiveJobs # {}

\* C16: removeJob(jobId) returns false and changes nothing when the registry
\* has no such job; otherwise it returns true, the job leaves the registry and
\* never comes back, every other job and its task are untouched, and the
\* job's task is stopped, after which it starts no dispatch.
C16_RemoveJob ==
    [][/\ \A id \in JobIds :
            RemoveJob(id)
                => IF id \notin DOMAIN jobs
                   THEN lastCall'.value.returned = FALSE /\ jobs' = jobs /\ tasks' = tasks
                        /\ running' = running
                   ELSE /\ lastCall'.value.returned = TRUE
                        /\ DOMAIN jobs' = DOMAIN jobs \ {id}
                        /\ \A other \in DOMAIN jobs \ {id} :
                            /\ jobs'[other] = jobs[other]
                            /\ tasks'[jobs[other].task] = tasks[jobs[other].task]
                        /\ tasks'[jobs[id].task].state = "stopped"
       /\ \A t \in DOMAIN tasks :
            /\ tasks[t].state = "stopped"
                => (tasks'[t].state = "stopped" /\ tasks'[t].inflight <= tasks[t].inflight)
            /\ t \notin RegistryTasks => t \notin RegistryTasks']_vars

\* removeJob returned true with another job registered: that one is still
\* there with its trigger armed, and a stopped task exists
C16_Witness ==
    /\ lastCall.op = "removeJob"
    /\ lastCall.value.returned = TRUE
    /\ \E id \in DOMAIN jobs : tasks[jobs[id].task].state = "started"
    /\ \E t \in DOMAIN tasks : tasks[t].state = "stopped" /\ t \notin RegistryTasks

\* C17: stop() disarms every active trigger and empties the registry, so that
\* nothing fires after it returns; called in any state, it leaves the
\* registry empty and the scheduler not running.
C17_Original ==
    [][Stop => (StartedTasks' = {} /\ DOMAIN jobs' = {} /\ ~running')]_vars

\* C18: every successful scheduleNotification returns a job id different
\* from every id returned before, so a new job never replaces a registry entry.
C18_Original ==
    \A i, j \in 1..Len(issued) : i # j => issued[i] # issued[j]

\* C19: a dispatch failure inside a fired trigger does not leave the
\* callback, changes nothing of what scheduleNotification returned, and ends
\* that firing: no dispatch is started for it again, a 'once' job is removed
\* and a 'daily' job stays registered with its trigger armed.
C19_FailureEndsTheFiring ==
    [][\A t \in DOMAIN tasks :
        DispatchSettles(t, FALSE)
            => /\ lastCall'.status = "resolved"
               /\ issued' = issued
               /\ running' = running
               /\ Inflight(tasks') = Inflight(tasks) - 1
               /\ tasks[t].frequency = "once" => tasks[t].jobId \notin DOMAIN jobs'
               /\ tasks[t].frequency = "daily"
                    => (jobs' = jobs /\ StartedTasks' = StartedTasks)]_vars

\* The dispatch of a fired 'daily' job failed; the job is registered and
\* its trigger armed
C19_Witness ==
    /\ lastCall.op = "callback"
    /\ lastCall.status = "resolved"
    /\ lastCall.value.dispatch = "failed"
    /\ lastCall.value.frequency = "daily"
    /\ \E id \in DOMAIN jobs :
        /\ jobs[id].schedule.frequency = "daily"
        /\ tasks[jobs[id].task].state = "started"
        /\ tasks[jobs[id].task].inflight = 0

----------------------------------------------------------------------------
(* Properties of the management call *)

\* The configured providers whose name matches, case-insensitively
Matching(name) ==
    {providers[i] : i \in {k \in 1..Len(providers) : toLowerCase(providers[k]) = toLowerCase(name)}}

\* C20: updateProviderStatus(name, enabled) returns false and changes no
\* provider when no configured provider matches the name case-insensitively;
\* otherwise it sets the matched provider's enabled flag to the given value,
\* leaves every other flag and the provider order as they were, and returns true.
C20_UpdateProviderStatus ==
    [][PatchProvider
        => /\ providers' = providers
           /\ initialized' = initialized
           /\ IF Matching(lastUpdate'.name) = {}
              THEN lastUpdate'.returned = FALSE /\ enabled' = enabled
              ELSE /\ lastUpdate'.returned = TRUE
                   /\ \E p \in Matching(lastUpdate'.name) :
                        /\ enabled'[p] = lastUpdate'.enabled
                        /\ \A q \in ProviderNames \ {p} : enabled'[q] = enabled[q]]_vars

\* A provider named in another case was found and disabled, the others are
\* still enabled
C20_Witness ==
    /\ lastUpdate.name = "FIREBASE"
    /\ lastUpdate.returned = TRUE
    /\ lastUpdate.enabled = FALSE
    /\ ~enabled["Firebase"]
    /\ enabled["OneSignal"]
    /\ enabled["Pusher"]

----------------------------------------------------------------------------
(* Properties of the providers' enabled state and of the read-only calls *)

\* C21 (as stated): in every reachable state and for every variant,
\* isEnabled() is true only if the variant was constructed with a complete
\* configuration and its enabled flag has not been switched off.
C21_Original ==
    \A p \in ProviderNames : isEnabled(p) => config[p] /\ enabled[p]

\* The step is a call of validateNotificationForProviders
ValidateStep ==
    query' # query /\ query'.op = "validateNotificationForProviders"

\* Some provider with isEnabled() true can handle n
SomeEnabledHandles(n) ==
    \E i \in 1..Len(providers) : isEnabled(providers[i]) /\ canHandle(providers[i], n)

\* C22 (amended): validateNotificationForProviders(n) returns valid = true
\* exactly when n passes validateNotification (it has a title or a body) and
\* at least one provider with isEnabled() true can handle it; for a
\* notification with neither title nor body it returns valid = false whatever
\* the providers can handle.
C22_ValidIffValidatedAndHandled ==
    [][ValidateStep =>
        (query'.returned.valid <=>
            validateNotification(query'.notification)
            /\ SomeEnabledHandles(query'.notification))]_vars

\* C22 witness: a notification with neither title nor body was checked while
\* an enabled provider could handle it, and valid = false was returned
C22_Witness ==
    /\ query.op = "validateNotificationForProviders"
    /\ ~query.notification.title /\ query.notification.body = "absent"
    /\ Len(query.returned.providers) > 0
    /\ \A i \in DOMAIN query.returned.providers :
        isEnabled(query.returned.providers[i].name)
    /\ SomeEnabledHandles(query.notification)
    /\ ~query.returned.valid

\* C22 (as stated): valid = true exactly when at least one enabled provider
\* can handle the notification, for every notification, one with neither
\* title nor body included.
C22_Original ==
    [][ValidateStep =>
        (query'.returned.valid <=> SomeEnabledHandles(query'.notification))]_vars

\* C23 (as stated): validateNotificationForProviders makes no send call and
\* changes no provider or scheduler state, and the list it returns has one
\* entry for every provider of the service, enabled or not, in list order,
\* each stating whether the notification is valid and whether the provider
\* can handle it.
C23_Original ==
    [][ValidateStep =>
        LET n == query'.notification
            entries == query'.returned.providers
        IN  /\ UNCHANGED <<svcVars, dispVars, schedVars>>
            /\ Len(entries) = Len(providers)
            /\ \A i \in 1..Len(providers) :
                /\ entries[i].name = providers[i]
                /\ entries[i].valid = validateNotification(n)
                /\ entries[i].valid => entries[i].canHandle = canHandle(providers[i], n)]_vars

\* The step is a call of getAvailableProviders
ListStep ==
    query' # query /\ query'.op = "getAvailableProviders"

\* C24 (as stated): getAvailableProviders returns one entry for every
\* provider of the service, ordered by ascending priority, whose priority is
\* the number the provider was configured with (Firebase 1, OneSignal 2,
\* Pusher 3) and whose enabled is the provider's isEnabled().
C24_Original ==
    [][ListStep =>
        LET entries == query'.returned
        IN  /\ Len(entries) = Len(providers)
            /\ \A i \in 1..Len(providers) :
                /\ entries[i].name = providers[i]
                /\ entries[i].enabled = isEnabled(providers[i])
                /\ entries[i].priority = Priority(providers[i])
            /\ \A i, j \in 1..Len(entries) :
                i < j => entries[i].priority < entries[j].priority]_vars

----------------------------------------------------------------------------
(* Properties of a dispatch in flight *)

\* C25 (as stated): an updateProviderStatus call made while a dispatch is in
\* flight does not change the sendWithRetry in progress.  In the failover
\* loop sendWithRetry is called only on a provider that was enabled and can
\* handle the notification, so when the notification is valid every attempt
\* after a backoff wait reaches the transport, whatever was toggled during
\* the wait.
C25_Original ==
    [][(/\ dispatch.pc = "delay"
        /\ dispatch' # dispatch
        /\ options.provider = ""
        /\ validateNotification(notification))
       => dispatch'.pc = "sending"]_vars

----------------------------------------------------------------------------
(* Properties of a cancelled job whose callback is still running *)

\* Task t has a callback awaiting its dispatch, and its job is no longer in
\* the registry
OrphanedInflight(t) ==
    /\ tasks[t].inflight > 0
    /\ tasks[t].state = "stopped"
    /\ ~(tasks[t].jobId \in DOMAIN jobs /\ jobs[tasks[t].jobId].task = t)

\* C26 (as stated): removeJob(jobId) called while the job's dispatch is in
\* progress returns true and removes the job, and the dispatch goes on; when
\* that callback ends it registers nothing and neither removes nor stops any
\* other job; and the stopped task never fires again.
C26_Original ==
    [][\A t \in DOMAIN tasks :
        /\ (/\ lastCall'.op = "removeJob"
            /\ tasks[t].inflight > 0
            /\ tasks[t].state = "started"
            /\ tasks'[t].state = "stopped")
           => /\ lastCall'.value.returned
              /\ tasks[t].jobId \notin DOMAIN jobs'
              /\ tasks'[t].inflight = tasks[t].inflight
        /\ (/\ lastCall'.op = "callback"
            /\ OrphanedInflight(t)
            /\ tasks'[t].inflight < tasks[t].inflight)
           => /\ jobs' = jobs
              /\ \A u \in DOMAIN tasks : u # t => tasks'[u] = tasks[u]
        /\ tasks[t].state = "stopped"
           => /\ tasks'[t].state = "stopped"
              /\ tasks'[t].inflight <= tasks[t].inflight]_vars

----------------------------------------------------------------------------
(* Properties of the order of the send calls *)

\* The providers on which the dispatch has a sendWithRetry in progress
RetryInProgress == {p \in ProviderNames : dispatch.retried[p] = "pending"}

\* C27: within one failover dispatch, a send call has been made on a provider
\* only if, on every provider before it in the list, sendWithRetry was never
\* called (the provider was skipped) or has thrown after all its
\* retryAttempts send calls; and the dispatch never has sendWithRetry in
\* progress on two providers: the one in progress is the one whose send call
\* or backoff wait the dispatch is waiting for.
C27_FailoverIsSequential ==
    (options.provider = "" /\ dispatch.pc # "idle") =>
        /\ \A i, j \in 1..Len(providers) :
            (i < j /\ dispatch.sendCalls[providers[j]] > 0) =>
                \/ /\ dispatch.retried[providers[i]] = "none"
                   /\ dispatch.sendCalls[providers[i]] = 0
                \/ /\ dispatch.retried[providers[i]] = "failed"
                   /\ dispatch.sendCalls[providers[i]] = retryAttempts
        /\ Cardinality(RetryInProgress) <= 1
        /\ dispatch.pc \in {"sending", "delay"} <=> RetryInProgress # {}
        /\ \A p \in RetryInProgress : p = providers[dispatch.idx]

\* C27 witness: the second provider's transport call is in progress after the
\* first provider's sendWithRetry has thrown, a backoff wait behind it
C27_Witness ==
    /\ options.provider = ""
    /\ Len(providers) >= 2
    /\ dispatch.pc = "sending"
    /\ dispatch.idx = 2
    /\ dispatch.attempt = 1
    /\ dispatch.retried[providers[1]] = "failed"
    /\ dispatch.sendCalls[providers[1]] = retryAttempts

\* C28: while sendBulkNotifications runs, the dispatch in progress is that of
\* item bulkI of the list, and it is the only one: exactly the bulkI items
\* before it have had their dispatch, each of which had ended (returned or
\* thrown) when the loop went on, and their entries are in the results in
\* list order.
C28_BulkIsSequential ==
    bulkPc = "running" =>
        /\ bulkI < Len(bulkList)
        /\ notification = bulkList[bulkI + 1]
        /\ dispatch.pc # "idle"
        /\ Len(bulkHistory) = bulkI
        /\ \A k \in 1..Len(bulkHistory) : bulkHistory[k] \in Final
        /\ Len(bulkResults) = bulkI
        /\ \A k \in 1..Len(bulkResults) :
            /\ bulkResults[k].index = k - 1
            /\ bulkResults[k].notification.body = bulkList[k].body

\* C28 witness: the first item's dispatch has failed, the second item's has
\* succeeded, and the third item's transport call is in progress
C28_Witness ==
    /\ bulkPc = "running"
    /\ bulkI = 2
    /\ bulkHistory = <<"threw", "returned">>
    /\ dispatch.pc = "sending"

----------------------------------------------------------------------------
(* Properties of the counts of a failover result *)

\* The providers the loop skipped because canHandle was false
SkippedUnsupported ==
    {p \in ProviderNames : dispatch.reached[p] = "unsupported"}

\* C29 (as stated): in the result of a successful failover dispatch the
\* providers skipped as unsupported are not counted in failedProviders but
\* are counted in totalProviders, which is the number of configured
\* providers.
C29_Original ==
    (options.provider = "" /\ dispatch.pc = "returned") =>
        /\ dispatch.outcome.failedProviders =
               Cardinality({p \in ProviderNames : dispatch.retried[p] = "failed"})
        /\ \A i \in 1..Len(dispatch.errors) :
               dispatch.errors[i].provider \in SkippedUnsupported
                   => dispatch.errors[i].skipped
        /\ dispatch.outcome.totalProviders = Len(providers)

----------------------------------------------------------------------------
(* Properties of a daily job's trigger *)

\* C30 (as stated): a 'daily' job fires at every daily occurrence of its time
\* for as long as it is neither cancelled nor stopped.  Its task has the
\* expression "<minute> <hour> * * *" and is started; no step other than a
\* removeJob call or stop() disarms it, the end of a callback whose dispatch
\* failed included.
C30_Original ==
    [][/\ \A id \in DOMAIN jobs :
            jobs[id].schedule.frequency = "daily" =>
                /\ jobs[id].schedule.cronExpression.day = "*"
                /\ tasks[jobs[id].task].frequency = "daily"
                /\ tasks[jobs[id].task].state = "started"
       /\ \A t \in DOMAIN tasks :
            (/\ tasks[t].frequency = "daily"
             /\ tasks[t].state = "started"
             /\ lastCall'.op \notin {"removeJob", "stop"})
            => tasks'[t].state = "started"]_vars

----------------------------------------------------------------------------
(* Properties of the triggers and the registry *)

\* C31 (as stated): a 'once' job starts a dispatch at most one time: a task
\* of frequency 'once' whose callback has run does not run its callback
\* again, whatever calls and firings come in between and whether or not its
\* first dispatch has ended.
C31_Original ==
    [][\A t \in DOMAIN tasks :
        (tasks[t].frequency = "once" /\ tasks[t].fired)
            => tasks'[t].inflight <= tasks[t].inflight]_vars

\* The wall-clock instant that scheduledFor shows, in the schedule's zone
ScheduledInstant ==
    LET sf == trigger.value.scheduledFor
    IN  sf.day * MsPerDay + sf.hours * MsPerHour + sf.minutes * MsPerMinute
            + sf.seconds * MsPerSecond

\* C32 (as stated): the trigger of a 'once' job is the instant reported as
\* scheduledFor (the cron expression names its day, hour and minute, and it
\* is at second 0), and that instant is not earlier than the call and at most
\* one day after it, a call made during the requested minute included.
C32_Original ==
    OnceComputed =>
        /\ trigger.value.cronExpression =
               [minute |-> trigger.value.scheduledFor.minutes,
                hour |-> trigger.value.scheduledFor.hours,
                day |-> ToString(trigger.value.scheduledFor.day)]
        /\ trigger.value.scheduledFor.seconds = 0
        /\ ScheduledInstant >= TriggerLocalNow
        /\ ScheduledInstant <= TriggerLocalNow + MsPerDay

\* C33 (as stated): in every reachable scheduler state the armed triggers are
\* exactly the triggers of the jobs in the registry: no task is started whose
\* job is not registered, and the task of every registered job is started.
C33_Original ==
    StartedTasks = RegistryTasks

\* C34: scheduleNotification is accepted only while the scheduler is running.
\* Whenever it is not running the registry is empty; a call made then throws
\* 'Scheduler service is not running' and registers nothing; stop() leaves
\* the scheduler not running with an empty registry; and start() changes
\* nothing but running, so that after a stop() it opens an empty registry.
C34_RunningGatesScheduling ==
    [][/\ ~running => DOMAIN jobs = {}
       /\ (lastCall'.op = "scheduleNotification" /\ ~running) =>
            /\ lastCall'.status = "threw"
            /\ lastCall'.value = [message |-> "Scheduler service is not running"]
            /\ UNCHANGED <<jobs, tasks, issued, running>>
       /\ (lastCall'.op = "scheduleNotification" /\ lastCall'.status = "returned") =>
            running
       /\ lastCall'.op = "stop" => (~running' /\ DOMAIN jobs' = {})
       /\ lastCall'.op = "start" => (running' /\ UNCHANGED <<jobs, tasks, issued>>)]_vars

\* C34 witness: a job was scheduled, stop() was called, and the call made
\* after it was refused
C34_Witness ==
    /\ ~running
    /\ Len(issued) >= 1
    /\ DOMAIN jobs = {}
    /\ lastCall.op = "scheduleNotification"
    /\ lastCall.status = "threw"
    /\ lastCall.value = [message |-> "Scheduler service is not running"]

----------------------------------------------------------------------------
(* Properties of the result and of the cost of a dispatch *)

\* C35: in the result of every successful failover dispatch, failedProviders
\* + skippedProviders is the number of providers before the used provider in
\* the list, the error entries are those providers' in list order, and
\* totalProviders >= failedProviders + successfulProviders.
C35_CountsOfASuccess ==
    (options.provider = "" /\ dispatch.pc = "returned") =>
        LET r == dispatch.outcome
            used == CHOOSE i \in 1..Len(providers) : providers[i] = r.usedProvider
        IN  /\ r.usedProvider = providers[dispatch.idx]
            /\ r.failedProviders + r.skippedProviders = used - 1
            /\ Len(r.errors) = used - 1
            /\ \A i \in 1..Len(r.errors) : r.errors[i].provider = providers[i]
            /\ r.totalProviders >= r.failedProviders + r.successfulProviders

\* C35 witness: a dispatch succeeded on the third provider after one provider
\* was skipped and one failed
C35_Witness ==
    /\ options.provider = ""
    /\ dispatch.pc = "returned"
    /\ dispatch.idx = 3
    /\ dispatch.outcome.failedProviders = 1
    /\ dispatch.outcome.skippedProviders = 1

\* The number of send calls the dispatch has made
RECURSIVE SumCalls(_)
SumCalls(S) ==
    IF S = {} THEN 0
    ELSE LET p == CHOOSE q \in S : TRUE
         IN  dispatch.sendCalls[p] + SumCalls(S \ {p})

\* C36: a dispatch makes at most retryAttempts (3) send calls on a provider,
\* so at most 3 times the number of providers; a failover dispatch makes
\* none on a provider it skipped as disabled or that cannot handle the
\* notification; an explicit dispatch makes its send calls on the named
\* provider only; and when every transport call settles and every backoff
\* wait ends, a dispatch that waits reaches its return or its throw.
C36_DispatchTerminates ==
    /\ [](/\ \A p \in ProviderNames : dispatch.sendCalls[p] <= retryAttempts
          /\ SumCalls(ProviderNames) <= retryAttempts * Len(providers)
          /\ (options.provider = "" /\ dispatch.pc # "idle") =>
                \A p \in ProviderNames :
                    (dispatch.reached[p] = "disabled" \/ ~canHandle(p, notification))
                        => dispatch.sendCalls[p] = 0
          /\ (options.provider # "" /\ dispatch.pc # "idle") =>
                SumCalls(ProviderNames) <= retryAttempts)
    /\ (dispatch.pc \in {"sending", "delay"} ~> dispatch.pc \in Final)

\* C36 witness: a failover dispatch over three providers ended after three
\* send calls on each of two providers and none on the one it skipped
C36_Witness ==
    /\ options.provider = ""
    /\ dispatch.pc \in Final
    /\ Len(providers) = 3
    /\ SumCalls(ProviderNames) = 2 * retryAttempts
    /\ \E p \in ProviderNames :
        dispatch.reached[p] \in {"disabled", "unsupported"} /\ dispatch.sendCalls[p] = 0

\* C37 (as stated): with options.enableFailover false and no provider named,
\* the dispatch makes send calls on at most one provider: when the first
\* eligible provider's sendWithRetry has failed, no later provider gets a
\* send call and the dispatch fails.
C37_Original ==
    (options.provider = "" /\ ~options.enableFailover /\ dispatch.pc # "idle") =>
        /\ Cardinality({p \in ProviderNames : dispatch.sendCalls[p] > 0}) <= 1
        /\ (\E p \in ProviderNames : dispatch.retried[p] = "failed") => dispatch.pc = "threw"

----------------------------------------------------------------------------
(* Properties of the provider list *)

\* The providers of the list
Listed == {providers[i] : i \in 1..Len(providers)}

\* C38: the provider list is fixed at construction.  No step changes it; a
\* provider left out of it (its configuration flag was off) gets no send
\* call from any dispatch and is not the provider a dispatch used, has no
\* entry in what getAvailableProviders returns, and an updateProviderStatus
\* call naming it returns false and changes no flag.
C38_ProviderListIsFixed ==
    [][/\ providers' = providers
       /\ \A p \in ProviderNames \ Listed :
            /\ dispatch'.sendCalls[p] = 0
            /\ dispatch'.pc = "returned" => dispatch'.outcome.results[1].provider # p
            /\ query'.op = "getAvailableProviders" =>
                \A i \in DOMAIN query'.returned : query'.returned[i].name # p
            /\ (lastUpdate' # lastUpdate
                    /\ toLowerCase(lastUpdate'.name) = toLowerCase(p)) =>
                (~lastUpdate'.returned /\ enabled' = enabled)]_vars

\* C38 witness: Pusher is not in the list; updateProviderStatus('pusher',
\* true) returned false, the providers were listed, and a dispatch naming
\* pusher was refused
C38_Witness ==
    /\ "Pusher" \notin Listed
    /\ Len(providers) = 2
    /\ lastUpdate = [name |-> "pusher", enabled |-> TRUE, returned |-> FALSE]
    /\ query.op = "getAvailableProviders"
    /\ Len(query.returned) = 2
    /\ options.provider = "pusher"
    /\ dispatch.pc = "threw"
    /\ dispatch.outcome.kind = "NotFound"

----------------------------------------------------------------------------
(* Properties of the package utilities *)

\* C39, as stated: utils.getConfiguredProviders() reports allConfigured = true
\* exactly when firebase, onesignal and pusher are all enabled; enabledCount
\* never exceeds totalProviders; and totalProviders equals the number of
\* providers listed in the report.
C39_Original ==
    query.op = "getConfiguredProviders" =>
        LET r == query.returned
        IN  /\ r.allConfigured <=> \A p \in ProviderNames : IndexIsEnabled(p)
            /\ r.enabledCount <= r.totalProviders
            /\ r.totalProviders = Cardinality(DOMAIN r.providers)

====
